---- MODULE Spec2Model ----
(***************************************************************************)
(* A model of the anomaly-detection pipeline.                              *)
(*                                                                         *)
(* AlertAgent (src/anomaly_detection/scripts/alert_agent.py): the          *)
(* per-class sliding-window rate limit, the per-class cooldown, the        *)
(* message composition with its templated fallback, the recording of an    *)
(* emission and the hourly housekeeping of send_alert.                     *)
(* Time is the value returned by time.time(); every read returns a value   *)
(* that is not smaller than the previous read (a non-decreasing clock).    *)
(* A send_alert call is a sequence of steps of one thread:                 *)
(*   Check   lines 153-161  (alert type, _is_rate_limited, denial)         *)
(*   Compose line  164      (generate_alert_message)                       *)
(*   Record  lines 167-180  (history/cooldown update and housekeeping)     *)
(*   Emit    lines 183-199  (banner and the returned record)               *)
(*                                                                         *)
(* AnomalyDetector (src/anomaly_detection/scripts/predicts.py): the load   *)
(* of the latest model and scaler, preprocess_data and detect_anomaly,     *)
(* which enters send_alert for an anomaly.                                 *)
(* model_utils (src/anomaly_detection/scripts/model_utils.py): load_models *)
(* and score_batch.                                                        *)
(*                                                                         *)
(* Specifications:                                                         *)
(*   Spec        send_alert calls of one thread, one after another         *)
(*   SpecConc    two request threads of the web layer share the AlertAgent *)
(*   SpecDetect  detect_anomaly calls of one thread on a ready detector    *)
(*   SpecReady   both scoring paths from before anything is loaded         *)
(*   SpecVector  preprocess_data on every record                           *)
(*   SpecLoad    the constructor in every model directory                  *)
(*   SpecBatch   load_models and score_batch on every batch                *)
(*   SpecMessage generate_alert_message called repeatedly on one input     *)
(***************************************************************************)
EXTENDS Integers, Sequences, FiniteSets, TLC

VARIABLES
    rate_limit,       \* self.rate_limit
    cooldown,         \* self.cooldown
    client,           \* self.client is set (an API key was available)
    clock,            \* the last value returned by time.time()
    alert_history,    \* self.alert_history: insertion-ordered <<key, list>> entries
    alert_cooldowns,  \* self.alert_cooldowns: a function on its keys
    pc,               \* position of each thread inside send_alert
    data,             \* anomaly_data of the thread's current call; its score is
                      \* drawn when the fallback reads it (line 130)
    alert_type,       \* the local alert_type of the call
    branch,           \* the branch _is_rate_limited took for the call
    nowCheck,         \* now of _is_rate_limited (line 64)
    nowRec,           \* now of send_alert (line 167)
    message,          \* alert_message
    status,           \* "status" of the returned record
    retType,          \* "alert_type" of the returned record
    emissions,        \* log: every emission ever recorded, per class
    before,           \* log: limiter state when the call started
    calls,            \* number of send_alert calls started
    result,           \* what detect_anomaly returned to each thread
    feature_names,    \* self.feature_names of the AnomalyDetector
    record,           \* the data given to preprocess_data: <<key, value>> items
                      \* in the order of data.items()
    vector,           \* the row preprocess_data built (line 116), or Raised
    warnings,         \* the warnings preprocess_data printed, in order
    modelDir,         \* the artifact files of self.model_dir
    model,            \* self.model: the timestamp of the artifact, 0 for None
    scaler,           \* self.scaler: the timestamp of the artifact, 0 for None
    construction,     \* AnomalyDetector(): not called, returned or raised
    loadError,        \* what _load_latest_model raised
    _model,           \* model_utils._model: 1 when loaded, 0 for None
    _scaler,          \* model_utils._scaler: 1 when loaded, 0 for None
    batch,            \* the rows of the DataFrame given to score_batch
    batchResult,      \* what score_batch returned or raised
    anomaly,          \* the anomaly_data given to generate_alert_message
    texts,            \* the messages its successive calls returned
    twin_history,     \* alert_history of a second run of the same agent
    twin_cooldowns,   \* alert_cooldowns of the second run
    stdout,           \* what sys.stdout accepts from print
    decided           \* the branch the last check of the compared class took
                      \* in the first and in the second run, and whether
                      \* the two runs differed before it

\* the state of the AlertAgent and of the send_alert calls
alertVars == <<rate_limit, cooldown, client, clock, alert_history,
               alert_cooldowns, pc, data, alert_type, branch, nowCheck, nowRec,
               message, status, retType, emissions, before, calls>>

\* the state of the scoring pipeline around it
vectorVars == <<feature_names, record, vector, warnings>>
loaderVars == <<modelDir, model, scaler, construction, loadError>>
batchVars == <<_model, _scaler, batch, batchResult>>
messageVars == <<anomaly, texts>>
twinVars == <<twin_history, twin_cooldowns, decided>>
pipeVars == <<result, vectorVars, loaderVars, batchVars, messageVars,
              twinVars, stdout>>

vars == <<alertVars, pipeVars>>

----------------------------------------------------------------------------
(* Program constants *)

WINDOW == 60
RETENTION == 3600
DEFAULT_RATE_LIMIT == 5
DEFAULT_COOLDOWN == 300

(* Bounds of the model *)

MaxCalls == 3
MaxConcCalls == 2
MaxDetects == 2
MaxKeys == 3
MaxArtifacts == 3
MaxRows == 3
MaxTexts == 2
MaxPairCalls == 3
MaxTotalCalls == 2

\* the AlertAgents constructed: rate_limit, cooldown, and whether an API key
\* was available (self.client is set)
Agents == { <<DEFAULT_RATE_LIMIT, DEFAULT_COOLDOWN, TRUE>>,
            <<2, 0, FALSE>>,
            <<1, 10, FALSE>>,
            <<0, 0, FALSE>> }

\* seconds between the previous read of time.time() and the one of a check:
\* the same instant, inside the window, the window, the cooldown, the hour
Deltas == {0, 10, WINDOW, RETENTION} \cup {cooldown}
\* seconds between the check and line 167: the call to the composition
\* collaborator takes time, the template does not
ComposeDelays == IF client THEN {10} ELSE {0}

Threads == {"t1", "t2"}

----------------------------------------------------------------------------
(* Values of anomaly_data *)

Missing == "<missing>"        \* the key is not in the mapping
NonString == "<int 7>"        \* a value that is not a str (the integer 7)
Severities == {"high"}
SeverityInputs == Severities \cup {Missing, NonString}
NumericScores == {"-0.2"}
ScoreInputs == NumericScores \cup {Missing, "bad"}

\* the values alert_type takes: anomaly_data.get('severity', 'unknown')
Labels == Severities \cup {"medium", "unknown", NonString}

IsStr(x) == x # NonString

\* str.upper
Upper(s) ==
    CASE s = "high" -> "HIGH"
      [] s = "medium" -> "MEDIUM"
      [] s = "unknown" -> "UNKNOWN"
      [] s = "bad" -> "BAD"
      [] OTHER -> s

\* dict.get(key, default)
GetOr(v, default) == IF v = Missing THEN default ELSE v

----------------------------------------------------------------------------
(* preprocess_data (src/anomaly_detection/scripts/predicts.py) *)

Raised == [kind |-> "raised"]

\* self.feature_names, cut to three features
Schema == <<"a", "b", "c">>

\* the keys of a record: the features and one key outside the schema
RecordKeys == {"a", "b", "c", "d"}

Null == "<null>"              \* None
AList == "<list>"             \* a value of a wrong type (a list)
HugeInt == "<int 10**400>"    \* an int beyond the range of float

\* the values of a record: a numeric string, a number, a non-numeric
\* string, None, a list, an int too large for a float
RecordValues == {"5", "<int 9>", "bad", Null, AList, HugeInt}

\* the exception float(value) raises, if any
FloatError(value) ==
    CASE value = "bad" -> "ValueError"
      [] value \in {Null, AList} -> "TypeError"
      [] value = HugeInt -> "OverflowError"
      [] OTHER -> "none"

\* float(value) when it returns
Float(value) ==
    CASE value = "5" -> "5.0"
      [] value = "<int 9>" -> "9.0"
      [] OTHER -> value

\* line 106: the exceptions the coercion catches
CaughtErrors == {"ValueError", "TypeError"}

\* line 99: every feature 0.0
ZeroRow(names) == [ f \in { names[i] : i \in 1..Len(names) } |-> "0.0" ]

\* lines 102-110 from item i on: pd is processed_data, warns the warnings
\* printed so far; an exception that is not caught ends the loop
RECURSIVE ProcessItems(_, _, _, _)
ProcessItems(items, i, pd, warns) ==
    IF i > Len(items) THEN [kind |-> "ok", pd |-> pd, warnings |-> warns]
    ELSE LET key == items[i][1]
             value == items[i][2]
         IN  IF key \in DOMAIN pd
             THEN IF FloatError(value) = "none"
                  THEN ProcessItems(items, i + 1,
                                    [pd EXCEPT ![key] = Float(value)], warns)
                  ELSE IF FloatError(value) \in CaughtErrors
                  THEN ProcessItems(items, i + 1, [pd EXCEPT ![key] = "0.0"],
                                    Append(warns, [kind |-> "coercion",
                                                   key |-> key]))
                  ELSE [kind |-> "raised", warnings |-> warns]
             ELSE ProcessItems(items, i + 1, pd,
                               Append(warns, [kind |-> "ignored", key |-> key]))

\* a variant of SchemaOrder: the columns taken in reverse
SchemaOrderReversed(pd, names) ==
    [ i \in 1..Len(names) |-> pd[names[Len(names) + 1 - i]] ]

\* lines 113-116: one row, its columns in the order of feature_names
SchemaOrder(pd, names) == [ i \in 1..Len(names) |-> pd[names[i]] ]

\* lines 94-133 up to the row of line 116; lines 131-133 re-raise
preprocess_data(items, names) ==
    LET p == ProcessItems(items, 1, ZeroRow(names), << >>)
    IN  IF p.kind = "raised" THEN p
        ELSE [kind |-> "ok", row |-> SchemaOrder(p.pd, names),
              warnings |-> p.warnings]

----------------------------------------------------------------------------
(* _load_latest_model (src/anomaly_detection/scripts/predicts.py) *)

\* the timestamps in the names isolation_forest_<ts>.joblib, scaler_<ts>.joblib
Stamps == 1..MaxArtifacts

\* a model directory: for each timestamp the modification time of its model
\* file (0: no such file) and whether its scaler file exists
ArtifactDirs ==
    [model : [Stamps -> 0..MaxArtifacts], scaler : [Stamps -> BOOLEAN]]

\* line 54
model_files(dir) == { ts \in Stamps : dir.model[ts] # 0 }

\* line 59: max by modification time; of several newest files max returns
\* the first in the order of glob, which is the order of the directory
LatestModels(dir) ==
    { ts \in model_files(dir) :
        \A o \in model_files(dir) : dir.model[o] <= dir.model[ts] }

\* lines 52-82 for the model file max chose: the fields as the call leaves
\* them and what it raised. Line 65 assigns self.model before line 66 loads
\* the scaler.
LoadOf(dir, ts) ==
    IF dir.scaler[ts]
    THEN [model |-> ts, scaler |-> ts, error |-> "none"]
    ELSE [model |-> ts, scaler |-> 0, error |-> "no scaler file"]

\* the ways _load_latest_model can end in a directory
LoadOutcomes(dir) ==
    IF model_files(dir) = {}
    THEN { [model |-> 0, scaler |-> 0, error |-> "no model files"] }
    ELSE { LoadOf(dir, ts) : ts \in LatestModels(dir) }

\* a variant of ConstructionOf: the error of the load is swallowed
ConstructionSwallowed(error) == "ready"

\* lines 80-82 and line 48: the constructor raises what the load raised
ConstructionOf(error) == IF error = "none" THEN "ready" ELSE "failed"

----------------------------------------------------------------------------
(* score_batch (src/anomaly_detection/scripts/model_utils.py) *)

\* the rows of a batch: finite values the model finds normal or anomalous,
\* and a row that holds an infinite value
RowKinds == {"normal", "odd", "inf"}

NotReady == [kind |-> "raised", error |-> "RuntimeError: not loaded"]

\* line 35: transform rejects a batch that holds an infinite value with a
\* ValueError
InvalidBatch == [kind |-> "raised", error |-> "ValueError"]

\* lines 38 and 41: 1 for the rows predict marks -1
AnomalyFlag(row) == IF row = "odd" THEN 1 ELSE 0

\* lines 31-45
score_batch(df) ==
    IF _model = 0 \/ _scaler = 0 THEN NotReady
    ELSE IF \E i \in 1..Len(df) : df[i] = "inf" THEN InvalidBatch
    ELSE [kind |-> "frame",
          rows |-> [ i \in 1..Len(df) |->
                       [index |-> i, anomaly |-> AnomalyFlag(df[i])] ]]

----------------------------------------------------------------------------
(* The insertion-ordered mapping alert_history *)

Keys(h) == { h[i].k : i \in 1..Len(h) }

HasKey(h, a) == a \in Keys(h)

\* h[a] read without inserting; the empty list when a is no key
Get(h, a) ==
    IF HasKey(h, a)
    THEN (CHOOSE e \in { h[i] : i \in 1..Len(h) } : e.k = a).v
    ELSE << >>

\* h[a] = v: in place for a key, at the end for a new key
Put(h, a, v) ==
    IF HasKey(h, a)
    THEN [ i \in 1..Len(h) |-> IF h[i].k = a THEN [k |-> a, v |-> v] ELSE h[i] ]
    ELSE Append(h, [k |-> a, v |-> v])

----------------------------------------------------------------------------
(* print *)

\* sys.stdout: a stream that takes every character, one that encodes to
\* ASCII only, and a closed one
Streams == {"utf8", "ascii", "closed"}

\* print of a line with an emoji (lines 75, 80 and 184) returns
PrintsEmoji(out) == out = "utf8"

\* print of an ASCII line (lines 126, 183 and 203) returns
PrintsAscii(out) == out # "closed"

\* lines 201-208: the handler prints the error, then returns the error
\* record; when its own print raises, send_alert raises
HandlerStatus(out) == IF PrintsAscii(out) THEN "error" ELSE "raised"

----------------------------------------------------------------------------
(* _is_rate_limited *)

\* a variant of PruneWindow: the check prunes to the hour of the housekeeping
PruneWindowHour(list, now) == SelectSeq(list, LAMBDA t : now - t < RETENTION)

\* lines 67-70: the entries of the class kept by the admission check
PruneWindow(list, now) == SelectSeq(list, LAMBDA t : now - t < WINDOW)

\* a variant of HistoryAfterCheck: the check itself records the emission
HistoryAfterCheckRecording(h, a, now) ==
    Put(h, a, Append(PruneWindow(Get(h, a), now), now))

\* lines 67-70: alert_history after the check; the defaultdict gets the key
HistoryAfterCheck(h, a, now) == Put(h, a, PruneWindow(Get(h, a), now))

\* line 73: self.alert_cooldowns.get(alert_type, 0)
LastAlert(cd, a) == IF a \in DOMAIN cd THEN cd[a] ELSE 0

\* a variant of InCooldown: the cooldown compared with <= instead of <
InCooldownInclusive(cd, a, now) == now - LastAlert(cd, a) <= cooldown

\* a variant of InCooldown: the test of line 74 left out
InCooldownSkipped(cd, a, now) == FALSE

\* line 74
InCooldown(cd, a, now) == now - LastAlert(cd, a) < cooldown

\* a variant of OverLimit: the limit compared with > instead of >=
OverLimitStrict(h, a) == Len(Get(h, a)) > rate_limit

\* line 79, on the pruned history
OverLimit(h, a) == Len(Get(h, a)) >= rate_limit

\* a variant of CheckBranch: the test of line 79 left out
CheckBranchCooldownOnly(h, cd, a, now) ==
    IF InCooldown(cd, a, now) THEN "cooldown" ELSE "pass"

\* lines 72-83 on the history the check has pruned: the branch that returns
CheckBranch(h, cd, a, now) ==
    IF InCooldown(cd, a, now) THEN "cooldown"
    ELSE IF OverLimit(h, a) THEN "rate_limit"
    ELSE "pass"

\* the bool _is_rate_limited returns
is_rate_limited(h, cd, a, now) ==
    CheckBranch(HistoryAfterCheck(h, a, now), cd, a, now) # "pass"

----------------------------------------------------------------------------
(* generate_alert_message *)

\* line 123: the text the composition collaborator returned
ComposedMessage == [kind |-> "composed"]

\* f"{score:.4f}": four decimal places of a number
Format4(score) ==
    CASE score = "-0.2" -> "-0.2000"
      [] score = "-0.15" -> "-0.1500"
      [] score = "-0.1" -> "-0.1000"
      [] score = "-0.05" -> "-0.0500"
      [] score = "0.0" -> "0.0000"
      [] OTHER -> score

\* the values the format code 'f' accepts: numbers
IsNumber(x) == x \notin {"unknown", "bad", Missing, NonString}

\* lines 129-138: the templated fallback message. .upper() needs a str
\* severity and the format code 'f' needs a number; the default score
\* 'unknown' is a str.
FallbackMessage(d) ==
    LET score == GetOr(d.score, "unknown")
        severity == GetOr(d.severity, "unknown")
    IN  IF ~IsStr(severity) THEN Raised
        ELSE IF ~IsNumber(score) THEN Raised
        ELSE [kind |-> "fallback", severity |-> Upper(severity),
              score |-> Format4(score)]

\* lines 96-138; apiOk: the call to the collaborator returned a text
generate_alert_message(d, apiOk) ==
    IF client /\ apiOk THEN ComposedMessage ELSE FallbackMessage(d)

\* datetime.now().isoformat() at wall-clock second now
IsoFormat(now) == "1970-01-01T00:00:0" \o ToString(now)

\* json.dumps(features, indent=2)
Dump(features) ==
    CASE features = "<2 flows>" -> "<dump of 120 characters>"
      [] features = "<40 flows>" -> "<dump of 2400 characters>"
      [] OTHER -> "{}"

\* text[:500]
First500(text) ==
    IF text = "<dump of 2400 characters>"
    THEN "<first 500 of 2400 characters>"
    ELSE text

\* lines 129-138 in full: the four lines of the fallback message, when
\* the wall clock reads now at line 129
FallbackText(d, now) ==
    LET head == FallbackMessage([severity |-> d.severity, score |-> d.score])
    IN  IF head = Raised THEN Raised
        ELSE [kind |-> "fallback", severity |-> head.severity,
              time |-> GetOr(d.timestamp, IsoFormat(now)),
              score |-> head.score,
              details |-> First500(Dump(GetOr(d.features, "{}")))]

----------------------------------------------------------------------------
(* send_alert *)

\* lines 168-169
RecordHistory(h, a, now) == Put(h, a, Append(Get(h, a), now))

\* a variant of RecordCooldown: the emission stamps every class
RecordCooldownAll(cd, a, now) == [ k \in DOMAIN cd \cup {a} |-> now ]

\* line 169
RecordCooldown(cd, a, now) ==
    [ k \in DOMAIN cd \cup {a} |-> IF k = a THEN now ELSE cd[k] ]

\* a variant of PruneRetention: the hour compared with <= instead of <
PruneRetentionInclusive(list, now) ==
    SelectSeq(list, LAMBDA t : now - t <= RETENTION)

\* lines 173-176: one class's list after the hourly pruning
PruneRetention(list, now) == SelectSeq(list, LAMBDA t : now - t < RETENTION)

\* lines 172-180: every key pruned, the empty ones deleted
Housekeep(h, now) ==
    LET pruned == [ i \in 1..Len(h) |->
                      [k |-> h[i].k, v |-> PruneRetention(h[i].v, now)] ]
    IN  SelectSeq(pruned, LAMBDA e : e.v # << >>)

\* line 172: the loop rebinds alert_type; after the loop it is the last key
\* of list(self.alert_history.keys())
LoopVariable(h, a) == IF Len(h) = 0 THEN a ELSE h[Len(h)].k

NoValue == "<none>"

\* lines 153-180 as one step on the limiter's state: the check at now and,
\* when it admits and the message is composed, the recording and the
\* housekeeping at rec
AfterSendAlert(h, cd, a, now, rec, composed) ==
    LET checked == HistoryAfterCheck(h, a, now)
        br == CheckBranch(checked, cd, a, now)
    IN  IF br = "pass" /\ composed
        THEN [h |-> Housekeep(RecordHistory(checked, a, rec), rec),
              cd |-> RecordCooldown(cd, a, rec),
              branch |-> br]
        ELSE [h |-> checked, cd |-> cd, branch |-> br]

\* the class the call is about: anomaly_data.get('severity', 'unknown')
ClassOf(t) == GetOr(data[t].severity, "unknown")

\* AlertAgent.__init__ for one agent of ags: no history, no cooldowns, no
\* call started
AlertInitOf(ags) ==
    /\ \E ag \in ags :
         rate_limit = ag[1] /\ cooldown = ag[2] /\ client = ag[3]
    /\ clock = 0
    /\ alert_history = << >>
    /\ alert_cooldowns = << >>
    /\ pc = [t \in Threads |-> "idle"]
    /\ data = [t \in Threads |-> [severity |-> Missing, score |-> Missing]]
    /\ alert_type = [t \in Threads |-> NoValue]
    /\ branch = [t \in Threads |-> NoValue]
    /\ nowCheck = [t \in Threads |-> 0]
    /\ nowRec = [t \in Threads |-> 0]
    /\ message = [t \in Threads |-> [kind |-> NoValue]]
    /\ status = [t \in Threads |-> NoValue]
    /\ retType = [t \in Threads |-> NoValue]
    /\ emissions = [a \in Labels |-> << >>]
    /\ before = [t \in Threads |-> [h |-> << >>, cd |-> << >>]]
    /\ calls = 0

\* a model directory that holds one model and its scaler
ReadyDir ==
    [model |-> [ts \in Stamps |-> IF ts = 1 THEN 1 ELSE 0],
     scaler |-> [ts \in Stamps |-> ts = 1]]

\* lines 23-42: the fields of an AnomalyDetector before the load
DetectorFields ==
    /\ result = [t \in Threads |-> [kind |-> NoValue]]
    /\ feature_names = Schema

\* preprocess_data has not been called
VectorIdle ==
    /\ record = << >>
    /\ vector = [kind |-> NoValue]
    /\ warnings = << >>

\* AnomalyDetector() has returned: constructed from ReadyDir
DetectorReady ==
    /\ modelDir = ReadyDir
    /\ model = 1
    /\ scaler = 1
    /\ construction = "ready"
    /\ loadError = "none"

\* AnomalyDetector() has not been called in the directory
Unbuilt ==
    /\ model = 0
    /\ scaler = 0
    /\ construction = "unbuilt"
    /\ loadError = "none"

\* model_utils lines 6-7: the module is imported, nothing is loaded
BatchIdle ==
    /\ _model = 0
    /\ _scaler = 0
    /\ batch = << >>
    /\ batchResult = [kind |-> NoValue]

\* an AnomalyDetector constructed; nothing else of the scoring pipeline
\* has run
\* generate_alert_message has not been called on its own
MessageIdle ==
    /\ anomaly = [severity |-> Missing, score |-> Missing,
                  timestamp |-> Missing, features |-> Missing]
    /\ texts = << >>

\* no second run is followed
TwinIdle ==
    /\ twin_history = << >>
    /\ twin_cooldowns = << >>
    /\ decided = <<NoValue, NoValue, FALSE>>

\* a terminal that prints every line
Terminal == stdout = "utf8"

\* the pipeline around an idle AlertAgent: nothing has run
PipeParts ==
    DetectorFields /\ VectorIdle /\ BatchIdle /\ MessageIdle /\ TwinIdle

PipeStill == PipeParts /\ Terminal

PipeIdle == PipeStill /\ DetectorReady

Init == AlertInitOf(Agents) /\ PipeIdle

\* lines 153-161: the call starts with one anomaly_data of ds, reads its
\* alert type and asks _is_rate_limited; a denial returns the rate_limited
\* record
CheckOf(t, limit, ds) ==
    /\ pc[t] \in {"idle", "done"}
    /\ calls < limit
    /\ \E d \in ds, dt \in Deltas :
         LET a == GetOr(d.severity, "unknown")
             now == clock + dt
             h == HistoryAfterCheck(alert_history, a, now)
             br == CheckBranch(h, alert_cooldowns, a, now)
         IN  /\ clock' = now
             /\ alert_history' = h
             /\ data' = [data EXCEPT ![t] = d]
             /\ alert_type' = [alert_type EXCEPT ![t] = a]
             /\ branch' = [branch EXCEPT ![t] = br]
             /\ nowCheck' = [nowCheck EXCEPT ![t] = now]
             /\ before' = [before EXCEPT
                             ![t] = [h |-> alert_history, cd |-> alert_cooldowns]]
             /\ pc' = [pc EXCEPT ![t] = IF br = "pass" THEN "admitted" ELSE "done"]
             /\ status' = [status EXCEPT
                             ![t] = IF br = "pass" THEN NoValue
                                    ELSE IF PrintsEmoji(stdout) THEN "rate_limited"
                                    ELSE HandlerStatus(stdout)]
    /\ calls' = calls + 1
    /\ nowRec' = [nowRec EXCEPT ![t] = 0]
    /\ message' = [message EXCEPT ![t] = [kind |-> NoValue]]
    /\ retType' = [retType EXCEPT ![t] = NoValue]
    /\ UNCHANGED <<rate_limit, cooldown, client, alert_cooldowns, emissions>>

\* the anomaly_data of a direct send_alert call: any severity, the score
\* not read yet
DirectData == { [severity |-> sev, score |-> Missing] : sev \in SeverityInputs }

\* predicts.py lines 186-192: the result of the detect_anomaly call that
\* entered send_alert, once send_alert has failed or not; an exception of
\* send_alert is raised again, a direct call has no result
ResultAfter(r, failed) ==
    IF r.kind = "result" /\ failed /\ HandlerStatus(stdout) = "raised"
    THEN Raised
    ELSE r

\* send_alert called directly: no detect_anomaly call is running
Check(t, limit) ==
    /\ CheckOf(t, limit, DirectData)
    /\ result' = [result EXCEPT ![t] = [kind |-> NoValue]]
    /\ UNCHANGED <<vectorVars, loaderVars, batchVars, messageVars, twinVars,
                   stdout>>

\* line 164, and lines 201-208 when the fallback raises
Compose(t) ==
    /\ pc[t] = "admitted"
    /\ \E apiOk \in (IF client THEN BOOLEAN ELSE {FALSE}),
          sc \in (IF data[t].score = Missing THEN ScoreInputs
                  ELSE {data[t].score}) :
         LET d == [data[t] EXCEPT !.score = sc]
             \* line 126 prints when the API call failed
             m == IF client /\ ~apiOk /\ ~PrintsAscii(stdout) THEN Raised
                  ELSE generate_alert_message(d, apiOk)
         IN  /\ data' = [data EXCEPT ![t] = d]
             /\ message' = [message EXCEPT ![t] = m]
             /\ pc' = [pc EXCEPT ![t] = IF m = Raised THEN "done" ELSE "composed"]
             /\ status' = [status EXCEPT
                             ![t] = IF m = Raised THEN HandlerStatus(stdout)
                                    ELSE NoValue]
             /\ result' = [result EXCEPT
                             ![t] = ResultAfter(@, m = Raised)]
    /\ UNCHANGED <<rate_limit, cooldown, client, clock, alert_history,
                   alert_cooldowns, alert_type, branch, nowCheck, nowRec,
                   retType, emissions, before, calls, vectorVars, loaderVars,
                   batchVars, messageVars, twinVars, stdout>>

\* lines 167-180: the emission is recorded, then the housekeeping runs
Record(t) ==
    /\ pc[t] = "composed"
    /\ \E dl \in ComposeDelays :
         LET a == alert_type[t]
             now == clock + dl
             h == RecordHistory(alert_history, a, now)
         IN  /\ clock' = now
             /\ nowRec' = [nowRec EXCEPT ![t] = now]
             /\ alert_cooldowns' = RecordCooldown(alert_cooldowns, a, now)
             /\ alert_history' = Housekeep(h, now)
             /\ alert_type' = [alert_type EXCEPT ![t] = LoopVariable(h, a)]
             /\ emissions' = [emissions EXCEPT ![a] = Append(@, now)]
    /\ pc' = [pc EXCEPT ![t] = "recorded"]
    /\ UNCHANGED <<rate_limit, cooldown, client, data, branch, nowCheck,
                   message, status, retType, before, calls, pipeVars>>

\* lines 183-199: the banner is written and the success record returned;
\* lines 201-208 when alert_type.upper() raises
Emit(t) ==
    /\ pc[t] = "recorded"
    /\ pc' = [pc EXCEPT ![t] = "done"]
    /\ LET printed == IsStr(alert_type[t]) /\ PrintsEmoji(stdout)
       IN  /\ status' = [status EXCEPT
                           ![t] = IF printed THEN "success"
                                  ELSE HandlerStatus(stdout)]
           /\ retType' = [retType EXCEPT
                            ![t] = IF printed THEN alert_type[t] ELSE NoValue]
           /\ result' = [result EXCEPT ![t] = ResultAfter(@, ~printed)]
    /\ UNCHANGED <<rate_limit, cooldown, client, clock, alert_history,
                   alert_cooldowns, data, alert_type, branch, nowCheck, nowRec,
                   message, emissions, before, calls, vectorVars, loaderVars,
                   batchVars, messageVars, twinVars, stdout>>

----------------------------------------------------------------------------
(* detect_anomaly (src/anomaly_detection/scripts/predicts.py) *)

\* scores are counted in hundredths: -15 is the score -0.15
SEVERE_THRESHOLD == -15
MILD_THRESHOLD == -5

\* the values model.decision_function returns: inside each band and on
\* each threshold
DetectScores == {-20, SEVERE_THRESHOLD, -10, MILD_THRESHOLD, 0}

\* the score as the number handed to send_alert
ScoreNumber(score) ==
    CASE score = -20 -> "-0.2"
      [] score = -15 -> "-0.15"
      [] score = -10 -> "-0.1"
      [] score = -5 -> "-0.05"
      [] OTHER -> "0.0"

\* a variant of IsAnomaly: the score compared with the severe threshold
IsAnomalySevere(score) == score < SEVERE_THRESHOLD

\* line 157
IsAnomaly(score) == score < MILD_THRESHOLD

\* a variant of SeverityOf: the thresholds compared with <= instead of <
SeverityOfInclusive(score) ==
    IF score <= SEVERE_THRESHOLD THEN "high"
    ELSE IF score <= MILD_THRESHOLD THEN "medium"
    ELSE "low"

\* lines 158-163
SeverityOf(score) ==
    IF score < SEVERE_THRESHOLD THEN "high"
    ELSE IF score < MILD_THRESHOLD THEN "medium"
    ELSE "low"

\* lines 166-172: the result dictionary; scaled: the score is of the row
\* the scaler transformed (line 123), not of the raw values (line 126)
ResultOf(score) ==
    [kind |-> "result", is_anomaly |-> IsAnomaly(score),
     anomaly_score |-> score, severity |-> SeverityOf(score),
     scaled |-> scaler # 0]

\* lines 176-185: the anomaly_data handed to send_alert
AlertData(score) ==
    [severity |-> SeverityOf(score), score |-> ScoreNumber(score)]

\* a variant of Dispatches: send_alert is called for every result
DispatchesAlways(r) == TRUE

\* line 175: send_alert is called for this result
Dispatches(r) == r.is_anomaly

\* the records given to detect_anomaly: one of no keys, one that makes
\* preprocess_data raise
DetectRecords == { << >>, <<<<"a", HugeInt>>>> }

\* line 188 without line 186: the result is returned, send_alert not called
ReturnWithoutAlert(t, limit) ==
    /\ pc[t] \in {"idle", "done"}
    /\ calls < limit
    /\ calls' = calls + 1
    /\ pc' = [pc EXCEPT ![t] = "done"]
    /\ data' = [data EXCEPT ![t] = [severity |-> Missing, score |-> Missing]]
    /\ alert_type' = [alert_type EXCEPT ![t] = NoValue]
    /\ branch' = [branch EXCEPT ![t] = NoValue]
    /\ nowCheck' = [nowCheck EXCEPT ![t] = 0]
    /\ nowRec' = [nowRec EXCEPT ![t] = 0]
    /\ message' = [message EXCEPT ![t] = [kind |-> NoValue]]
    /\ status' = [status EXCEPT ![t] = NoValue]
    /\ retType' = [retType EXCEPT ![t] = NoValue]
    /\ before' = [before EXCEPT
                    ![t] = [h |-> alert_history, cd |-> alert_cooldowns]]
    /\ UNCHANGED <<rate_limit, cooldown, client, clock, alert_history,
                   alert_cooldowns, emissions>>

\* lines 145-188: the record is scored, the result built and, when it is
\* an anomaly, send_alert entered (its steps Compose, Record and Emit follow)
Detect(t, limit) ==
    /\ construction = "ready"
    /\ \E rec \in DetectRecords, score \in DetectScores :
         IF \/ preprocess_data(rec, feature_names).kind = "raised"
            \/ model = 0
            \/ ~PrintsEmoji(stdout)    \* predicts.py line 96
         THEN /\ result' = [result EXCEPT ![t] = Raised]
              /\ ReturnWithoutAlert(t, limit)
         ELSE /\ result' = [result EXCEPT ![t] = ResultOf(score)]
              /\ IF Dispatches(ResultOf(score))
                 THEN CheckOf(t, limit, {AlertData(score)})
                 ELSE ReturnWithoutAlert(t, limit)
    /\ UNCHANGED <<vectorVars, loaderVars, batchVars, messageVars, twinVars, stdout>>

\* AnomalyDetector() (web/app.py line 22): _load_latest_model runs in
\* the model directory
Construct ==
    /\ construction = "unbuilt"
    /\ \E o \in LoadOutcomes(modelDir) :
         /\ model' = o.model
         /\ scaler' = o.scaler
         /\ loadError' = o.error
         /\ construction' = ConstructionOf(o.error)
    /\ UNCHANGED <<alertVars, result, vectorVars, modelDir, batchVars,
                   messageVars, twinVars, stdout>>

\* model_utils.load_models: each joblib.load returns or raises; line 23
\* assigns _model before line 24 loads the scaler
LoadModels ==
    /\ \E modelOk, scalerOk \in BOOLEAN :
         /\ _model' = IF modelOk THEN 1 ELSE _model
         /\ _scaler' = IF modelOk /\ scalerOk THEN 1 ELSE _scaler
    /\ UNCHANGED <<alertVars, result, vectorVars, loaderVars, batch,
                   batchResult, messageVars, twinVars, stdout>>

\* model_utils.score_batch called on one DataFrame of bs
ScoreBatchOf(bs) ==
    /\ \E df \in bs :
         /\ batch' = df
         /\ batchResult' = score_batch(df)
    /\ UNCHANGED <<alertVars, result, vectorVars, loaderVars, _model,
                   _scaler, messageVars, twinVars, stdout>>

----------------------------------------------------------------------------
(* Specifications *)

\* send_alert calls run one after another
Next ==
    \/ Check("t1", MaxCalls)
    \/ Compose("t1")
    \/ Record("t1")
    \/ Emit("t1")

Spec == Init /\ [][Next]_vars

\* two request threads share the AlertAgent of the singleton detector
NextConc ==
    \E t \in Threads :
        \/ Check(t, MaxConcCalls)
        \/ Compose(t)
        \/ Record(t)
        \/ Emit(t)

SpecConc == Init /\ [][NextConc]_vars

\* the AlertAgent() of an AnomalyDetector: the defaults, with or without an
\* API key in the environment
DetectAgents == { <<DEFAULT_RATE_LIMIT, DEFAULT_COOLDOWN, c>> : c \in BOOLEAN }

InitDetect == AlertInitOf(DetectAgents) /\ PipeIdle

\* detect_anomaly calls run one after another
NextDetect ==
    \/ Detect("t1", MaxDetects)
    \/ Compose("t1")
    \/ Record("t1")
    \/ Emit("t1")

SpecDetect == InitDetect /\ [][NextDetect]_vars

\* one AlertAgent() that no call uses
AlertIdle ==
    AlertInitOf({ <<DEFAULT_RATE_LIMIT, DEFAULT_COOLDOWN, FALSE>> })

\* the mappings given to preprocess_data: up to MaxKeys items, no key twice
Records ==
    UNION { { r \in [1..n -> RecordKeys \X RecordValues] :
                \A i, j \in 1..n : r[i][1] = r[j][1] => i = j }
            : n \in 0..MaxKeys }

InitVector ==
    /\ AlertIdle /\ DetectorFields /\ DetectorReady /\ BatchIdle
    /\ MessageIdle /\ TwinIdle /\ Terminal
    /\ record \in Records
    /\ vector = [kind |-> NoValue]
    /\ warnings = << >>

\* preprocess_data is called on the record
Vectorize ==
    /\ vector.kind = NoValue
    /\ LET r == preprocess_data(record, feature_names)
       IN  /\ vector' = IF r.kind = "ok"
                        THEN [kind |-> "ok", row |-> r.row]
                        ELSE Raised
           /\ warnings' = r.warnings
    /\ UNCHANGED <<alertVars, result, feature_names, record, loaderVars,
                   batchVars, messageVars, twinVars, stdout>>

SpecVector == InitVector /\ [][Vectorize]_vars

\* the constructor runs in every model directory
InitLoad ==
    /\ AlertIdle /\ PipeStill /\ Unbuilt
    /\ modelDir \in ArtifactDirs

SpecLoad == InitLoad /\ [][Construct]_vars

\* the DataFrames given to score_batch: one row up to MaxRows rows
Batches == UNION { [1..n -> RowKinds] : n \in 1..MaxRows }

InitBatch == AlertIdle /\ PipeIdle

NextBatch ==
    \/ LoadModels
    \/ ScoreBatchOf(Batches)

SpecBatch == InitBatch /\ [][NextBatch]_vars

\* the anomaly_data given to generate_alert_message, with and without a
\* timestamp, with no features, a few, and more than 500 characters of them
AnomalyInputs ==
    [severity : SeverityInputs, score : ScoreInputs,
     timestamp : {Missing, "2025-12-08T22:30:45.123456"},
     features : {Missing, "<2 flows>", "<40 flows>"}]

\* seconds between two reads of the wall clock
WallSteps == {0, 1}

\* an agent whose collaborator is absent, or present and failing
InitMessage ==
    /\ AlertInitOf(DetectAgents)
    /\ DetectorFields /\ VectorIdle /\ BatchIdle /\ DetectorReady
    /\ TwinIdle /\ Terminal
    /\ anomaly \in AnomalyInputs
    /\ texts = << >>

\* generate_alert_message is called on the anomaly data once more; the
\* collaborator, if there is one, fails (lines 125-126)
Generate ==
    /\ Len(texts) < MaxTexts
    /\ \E dt \in WallSteps :
         /\ clock' = clock + dt
         /\ texts' = Append(texts, FallbackText(anomaly, clock + dt))
    /\ UNCHANGED <<rate_limit, cooldown, client, alert_history,
                   alert_cooldowns, pc, data, alert_type, branch, nowCheck,
                   nowRec, message, status, retType, emissions, before, calls,
                   result, vectorVars, loaderVars, batchVars, anomaly,
                   twinVars, stdout>>

SpecMessage == InitMessage /\ [][Generate]_vars

\* no artifact at all
EmptyDir ==
    [model |-> [ts \in Stamps |-> 0], scaler |-> [ts \in Stamps |-> FALSE]]

\* one model file whose scaler file is not there
UnpairedDir ==
    [model |-> [ts \in Stamps |-> IF ts = 1 THEN 1 ELSE 0],
     scaler |-> [ts \in Stamps |-> FALSE]]

\* both scoring paths from their start: the detector not constructed yet,
\* model_utils imported and not loaded
InitReady ==
    /\ AlertInitOf(DetectAgents) /\ PipeStill /\ Unbuilt
    /\ modelDir \in {EmptyDir, UnpairedDir, ReadyDir}

NextReady ==
    \/ Construct
    \/ Detect("t1", MaxDetects)
    \/ Compose("t1")
    \/ Record("t1")
    \/ Emit("t1")
    \/ LoadModels
    \/ ScoreBatchOf({ <<"normal">> })

SpecReady == InitReady /\ [][NextReady]_vars

----------------------------------------------------------------------------
(* two runs of one AlertAgent, call by call *)

\* the class whose decisions are compared, and a class the runs may differ
\* in: lines 64-83 and 167-180 read no class name, so one other class
\* stands for all of them
ComparedClass == "high"
OtherClasses == {"unknown"}

\* both runs make the same send_alert call for ComparedClass at the same
\* time, with the same outcome of the composition
PairedCall ==
    /\ calls < MaxPairCalls
    /\ \E dt \in Deltas, dl \in ComposeDelays, composed \in BOOLEAN :
         LET now == clock + dt
             rec == now + dl
             one == AfterSendAlert(alert_history, alert_cooldowns,
                                   ComparedClass, now, rec, composed)
             two == AfterSendAlert(twin_history, twin_cooldowns,
                                   ComparedClass, now, rec, composed)
         IN  /\ clock' = (IF one.branch = "pass" \/ two.branch = "pass"
                          THEN rec ELSE now)
             /\ alert_history' = one.h
             /\ alert_cooldowns' = one.cd
             /\ twin_history' = two.h
             /\ twin_cooldowns' = two.cd
             /\ decided' = <<one.branch, two.branch,
                             alert_history # twin_history
                               \/ alert_cooldowns # twin_cooldowns>>
    /\ calls' = calls + 1
    /\ UNCHANGED <<rate_limit, cooldown, client, pc, data, alert_type, branch,
                   nowCheck, nowRec, message, status, retType, emissions,
                   before, result, vectorVars, loaderVars, batchVars,
                   messageVars, stdout>>

\* one of the two runs makes a send_alert call for another class
SoloCall(first) ==
    /\ calls < MaxPairCalls
    /\ \E b \in OtherClasses, dt \in Deltas, dl \in ComposeDelays,
          composed \in BOOLEAN :
         LET now == clock + dt
             rec == now + dl
             h == IF first THEN alert_history ELSE twin_history
             cd == IF first THEN alert_cooldowns ELSE twin_cooldowns
             after == AfterSendAlert(h, cd, b, now, rec, composed)
         IN  /\ clock' = (IF after.branch = "pass" THEN rec ELSE now)
             /\ IF first
                THEN /\ alert_history' = after.h
                     /\ alert_cooldowns' = after.cd
                     /\ UNCHANGED <<twin_history, twin_cooldowns>>
                ELSE /\ twin_history' = after.h
                     /\ twin_cooldowns' = after.cd
                     /\ UNCHANGED <<alert_history, alert_cooldowns>>
    /\ calls' = calls + 1
    /\ UNCHANGED <<rate_limit, cooldown, client, pc, data, alert_type, branch,
                   nowCheck, nowRec, message, status, retType, emissions,
                   before, decided, result, vectorVars, loaderVars, batchVars,
                   messageVars, stdout>>

NextPair ==
    \/ PairedCall
    \/ SoloCall(TRUE)
    \/ SoloCall(FALSE)

SpecPair == Init /\ [][NextPair]_vars

----------------------------------------------------------------------------
(* agents whose cooldown is compared with the window *)

\* the default agent, one whose cooldown is the window itself, and one
\* whose cooldown is shorter than the window
CooldownAgents ==
    { <<DEFAULT_RATE_LIMIT, DEFAULT_COOLDOWN, TRUE>>,
      <<2, WINDOW, FALSE>>,
      <<2, 10, FALSE>> }

InitCooldown == AlertInitOf(CooldownAgents) /\ PipeIdle

SpecCooldown == InitCooldown /\ [][Next]_vars

----------------------------------------------------------------------------
(* send_alert and detect_anomaly under any stdout *)

TotalAgents == { <<DEFAULT_RATE_LIMIT, DEFAULT_COOLDOWN, TRUE>>,
                 <<1, 10, FALSE>> }

InitTotal ==
    /\ AlertInitOf(TotalAgents)
    /\ PipeParts /\ DetectorReady
    /\ stdout \in Streams

\* sys.stdout is replaced or closed
Redirect ==
    /\ stdout' \in Streams \ {stdout}
    /\ UNCHANGED <<alertVars, result, vectorVars, loaderVars, batchVars,
                   messageVars, twinVars>>

\* direct send_alert calls and detect_anomaly calls, one after another,
\* stdout changing in between
NextTotal ==
    \/ Redirect
    \/ Check("t1", MaxTotalCalls)
    \/ Detect("t1", MaxTotalCalls)
    \/ Compose("t1")
    \/ Record("t1")
    \/ Emit("t1")

SpecTotal == InitTotal /\ [][NextTotal]_vars

----------------------------------------------------------------------------
(* Vocabulary of the properties *)

\* the call of t was denied by _is_rate_limited and has returned
Denied(t) == pc[t] = "done" /\ branch[t] # "pass" /\ branch[t] # NoValue

\* the call of t has passed _is_rate_limited and has recorded nothing yet
Admitted(t) == pc[t] \in {"admitted", "composed"}

\* emissions of a list that lie in the trailing window of now
WindowCount(list, now) ==
    Cardinality({ i \in 1..Len(list) : now - list[i] < WINDOW })

Range(list) == { list[i] : i \in 1..Len(list) }

\* the limiter state holds no emission that before[t] does not hold
NothingRecordedSince(t) ==
    /\ alert_cooldowns = before[t].cd
    /\ \A a \in Labels :
         /\ Range(Get(alert_history, a)) \subseteq Range(Get(before[t].h, a))
         /\ Len(Get(alert_history, a)) <= Len(Get(before[t].h, a))

----------------------------------------------------------------------------
(* C1: calls run one after another. A check of a class made when
   rate_limit emissions of the class were recorded in the trailing 60 s
   window is denied, and the denied call records no emission. Without a
   cooldown that is the only denial, so rate_limit = 2 and checks of 'high'
   at 0, 10, 20 give admitted, admitted, denied. *)
C1_RateLimit ==
    \A t \in Threads :
        LET n == WindowCount(emissions[ClassOf(t)], nowCheck[t])
        IN  /\ Admitted(t) => n < rate_limit
            /\ Denied(t) => /\ status[t] = "rate_limited"
                            /\ NothingRecordedSince(t)
                            /\ cooldown = 0 => n >= rate_limit

\* the third cycle of the scenario: emissions of 'high' at 0 and 10, the
\* check at 20 denied for the rate limit
C1_Witness ==
    /\ rate_limit = 2 /\ cooldown = 0
    /\ emissions["high"] = <<0, 10>>
    /\ Denied("t1") /\ ClassOf("t1") = "high" /\ nowCheck["t1"] = 20
    /\ branch["t1"] = "rate_limit"

----------------------------------------------------------------------------
\* the call of t has been through _is_rate_limited
Checked(t) == branch[t] # NoValue

\* the class of the call had a last-emission time when the call started
HadEmitted(t) == ClassOf(t) \in DOMAIN before[t].cd

\* now - last_emission_time(class) at the check of the call
SinceLast(t) == nowCheck[t] - before[t].cd[ClassOf(t)]

(* C2: with cooldown > 0, a check of a class made less than cooldown
   seconds after the last recorded emission of the class is denied in the
   cooldown branch, whatever the window count; a check made cooldown
   seconds or more after it is not denied by the cooldown. *)
C2_Cooldown ==
    \A t \in Threads :
        (Checked(t) /\ HadEmitted(t)) =>
            /\ (cooldown > 0 /\ SinceLast(t) < cooldown) =>
                   (branch[t] = "cooldown" /\
                    (pc[t] = "done" => status[t] = "rate_limited"))
            /\ SinceLast(t) >= cooldown => branch[t] # "cooldown"

\* a denial by cooldown alone: no emission of the class is left in the window
C2_Witness ==
    /\ cooldown > 0
    /\ Denied("t1") /\ HadEmitted("t1")
    /\ branch["t1"] = "cooldown"
    /\ SinceLast("t1") < cooldown
    /\ WindowCount(emissions[ClassOf("t1")], nowCheck["t1"]) = 0

\* a check made exactly cooldown seconds after the last emission
C2_BoundaryReached ==
    /\ cooldown > 0
    /\ Checked("t1") /\ HadEmitted("t1")
    /\ SinceLast("t1") = cooldown

----------------------------------------------------------------------------
\* the emissions of a list recorded in the window that starts at list[i]
InWindowFrom(list, i) ==
    Cardinality({ j \in i..Len(list) : list[j] - list[i] < WINDOW })

(* C3: the check and the recording of a class are one atomic unit: the
   emissions recorded for a class never exceed rate_limit within one window,
   and no two of them are less than cooldown seconds apart. *)
C3_AtomicAdmission ==
    \A a \in Labels :
        LET e == emissions[a]
        IN  /\ \A i \in 1..Len(e) : InWindowFrom(e, i) <= rate_limit
            /\ \A i \in 1..(Len(e) - 1) : e[i + 1] - e[i] >= cooldown

----------------------------------------------------------------------------
\* the call of t has returned
Returned(t) == pc[t] = "done" /\ Checked(t)

\* the call of t has left an emission in the limiter state
Recorded(t) == Checked(t) /\ ~NothingRecordedSince(t)

(* C4: a denied call reports why: status rate_limited when the window
   count reached rate_limit, cooldown_blocked when the class is in the
   cooldown of its last emission. *)
C4_DenialReason ==
    \A t \in Threads :
        Denied(t) =>
            /\ branch[t] = "rate_limit" => status[t] = "rate_limited"
            /\ (branch[t] = "cooldown" /\ HadEmitted(t)) =>
                   status[t] = "cooldown_blocked"

(* C5: a call that has returned has recorded an emission (a timestamp in
   the history of its class, the last-emission time set) if and only if
   its status is success. *)
C5_RecordedIffSuccess ==
    \A t \in Threads :
        Returned(t) => (Recorded(t) <=> status[t] = "success")

----------------------------------------------------------------------------
\* generate_alert_message raised in the call of t
CompositionRaised(t) == Checked(t) /\ message[t] = Raised

(* C6, as claimed: when the composition raises, alert_history and
   alert_cooldowns are the same as before the send_alert call. *)
C6_StateUnchanged ==
    \A t \in Threads :
        CompositionRaised(t) =>
            /\ alert_history = before[t].h
            /\ alert_cooldowns = before[t].cd

(* C6, amended: an emission is recorded only after generate_alert_message
   has returned a message. When the composition raises, alert_cooldowns is
   the same as before the call and alert_history holds no new timestamp:
   the lists of the other classes are the same, and the list of the class
   of the call is the list of before without the entries that were 60 s
   old or older at the check (the class may have become a key with an
   empty list). *)
C6_NoEmissionWithoutMessage ==
    \A t \in Threads :
        /\ Recorded(t) => message[t].kind \in {"composed", "fallback"}
        /\ CompositionRaised(t) =>
             /\ alert_cooldowns = before[t].cd
             /\ \A a \in Labels \ {ClassOf(t)} :
                  /\ HasKey(alert_history, a) <=> HasKey(before[t].h, a)
                  /\ Get(alert_history, a) = Get(before[t].h, a)
             /\ HasKey(alert_history, ClassOf(t))
             /\ LET old == Get(before[t].h, ClassOf(t))
                    new == Get(alert_history, ClassOf(t))
                IN  new = SelectSeq(old, LAMBDA ts : nowCheck[t] - ts < WINDOW)

\* the composition raised after the check had pruned the list of the class
C6_Witness ==
    /\ CompositionRaised("t1") /\ Returned("t1")
    /\ Len(Get(alert_history, ClassOf("t1")))
         < Len(Get(before["t1"].h, ClassOf("t1")))

(* C7: with the composition collaborator absent or raising, the fallback
   returns a message for every anomaly_data, and the admitted call ends
   with the success status. *)
C7_FallbackNeverFails ==
    \A t \in Threads :
        (Returned(t) /\ branch[t] = "pass" /\
         message[t].kind \in {"fallback", "raised"}) =>
            /\ message[t] # Raised
            /\ status[t] = "success"

----------------------------------------------------------------------------
\* the housekeeping of the call of t has just run, at nowRec[t]
Housekept(t) == pc[t] = "recorded"

(* C8: immediately after the housekeeping of send_alert has run at time
   now, every timestamp kept in alert_history is less than 3600 s old and
   no key maps to an empty list. *)
C8_BoundedAfterPruning ==
    \A t \in Threads :
        Housekept(t) =>
            \A i \in 1..Len(alert_history) :
                /\ alert_history[i].v # << >>
                /\ \A ts \in Range(alert_history[i].v) :
                       nowRec[t] - ts < RETENTION

\* the housekeeping has evicted a class that had emitted
C8_Witness ==
    /\ Housekept("t1")
    /\ \E a \in DOMAIN alert_cooldowns : ~HasKey(alert_history, a)
    /\ \E i \in 1..Len(alert_history) :
         alert_history[i].k # ClassOf("t1") /\ alert_history[i].v # << >>

\* the classes that hold an entry in the limiter state
ClassesHeld == Keys(alert_history) \cup DOMAIN alert_cooldowns

\* the class has an emission less than an hour old at time now
EmittedInLastHour(a, now) ==
    \E i \in 1..Len(emissions[a]) : now - emissions[a][i] < RETENTION

(* C9: a class with no emission in the last hour is evicted and holds no
   entry in alert_history or in alert_cooldowns: once the housekeeping has
   run, every class held has emitted within the last hour. *)
C9_IdleClassesEvicted ==
    \A t \in Threads :
        Housekept(t) =>
            \A a \in ClassesHeld : EmittedInLastHour(a, nowRec[t])

----------------------------------------------------------------------------
\* the call of t has been through the check and not through lines 167-169
OnlyChecked(t) == Admitted(t) \/ Denied(t) \/ (Returned(t) /\ message[t] = Raised)

(* C10: a second _is_rate_limited with the same now, made on the state
   the first one left and with no emission in between, returns what the
   first one returned, and prunes nothing more. *)
C10_IdempotentCheck ==
    \A t \in Threads :
        OnlyChecked(t) =>
            /\ is_rate_limited(alert_history, alert_cooldowns,
                               ClassOf(t), nowCheck[t])
                 = (branch[t] # "pass")
            /\ HistoryAfterCheck(alert_history, ClassOf(t), nowCheck[t])
                 = alert_history

\* the first check pruned the list of the class and admitted the call
C10_Witness ==
    /\ OnlyChecked("t1") /\ pc["t1"] = "admitted"
    /\ Len(Get(alert_history, ClassOf("t1")))
         < Len(Get(before["t1"].h, ClassOf("t1")))

----------------------------------------------------------------------------
\* detect_anomaly has built the result of its thread's current call
HasResult(t) == result[t].kind = "result"

\* high before medium before low
Rank(severity) ==
    CASE severity = "high" -> 2
      [] severity = "medium" -> 1
      [] OTHER -> 0

(* C11: in every result of detect_anomaly the severity is 'high' exactly
   when the score is below the severe threshold, 'medium' exactly when it
   is from the severe threshold up to but not including the mild one, 'low'
   exactly when it is the mild threshold or above; a score equal to a
   threshold is in the less severe band, and a lower score never has a
   lower severity than a higher one. *)
C11_SeverityBands ==
    \A t \in Threads :
        HasResult(t) =>
            LET s == result[t].anomaly_score
                v == result[t].severity
            IN  /\ (v = "high") <=> (s < SEVERE_THRESHOLD)
                /\ (v = "medium") <=>
                       (SEVERE_THRESHOLD <= s /\ s < MILD_THRESHOLD)
                /\ (v = "low") <=> (s >= MILD_THRESHOLD)
                /\ s = SEVERE_THRESHOLD => v = "medium"
                /\ s = MILD_THRESHOLD => v = "low"
                /\ \A s2 \in DetectScores :
                       s < s2 => Rank(v) >= Rank(SeverityOf(s2))

\* a result whose score is exactly the severe threshold has been returned
C11_Witness ==
    /\ HasResult("t1") /\ pc["t1"] = "done"
    /\ result["t1"].anomaly_score = SEVERE_THRESHOLD
    /\ result["t1"].severity = "medium"

(* C12: in every result of detect_anomaly, is_anomaly is true exactly
   when the score is below the mild threshold, which is exactly when the
   severity is 'medium' or 'high'. *)
C12_AnomalyIffNotLow ==
    \A t \in Threads :
        HasResult(t) =>
            /\ result[t].is_anomaly <=>
                   (result[t].anomaly_score < MILD_THRESHOLD)
            /\ result[t].is_anomaly <=>
                   (result[t].severity \in {"medium", "high"})
            /\ result[t].severity \in {"low", "medium", "high"}

\* the second call has returned a 'medium' result, an anomaly
C12_Witness ==
    /\ HasResult("t1") /\ pc["t1"] = "done" /\ calls = 2
    /\ result["t1"].severity = "medium" /\ result["t1"].is_anomaly

----------------------------------------------------------------------------
\* preprocess_data has built a row from the record
Built == vector.kind = "ok"

\* the value the record holds for a key, Missing when it has none
ValueOf(key) ==
    IF \E i \in 1..Len(record) : record[i][1] = key
    THEN record[CHOOSE i \in 1..Len(record) : record[i][1] = key][2]
    ELSE Missing

\* the slot of a feature: the number the record gives for it, else 0.0
SlotOf(key) ==
    IF ValueOf(key) \in {"5", "<int 9>"} THEN Float(ValueOf(key)) ELSE "0.0"

\* the same items in every order
Reorderings ==
    { [ i \in 1..Len(record) |-> record[p[i]] ] :
        p \in { q \in [1..Len(record) -> 1..Len(record)] :
                  \A i, j \in 1..Len(record) : q[i] = q[j] => i = j } }

(* C13: whatever keys the input mapping has, the row preprocess_data
   builds has one slot per feature of feature_names, slot i holding the
   value of feature i; the same items in another order give the same row,
   and feature_names is what it was. *)
C13_SchemaShapedVector ==
    /\ feature_names = Schema
    /\ Built =>
         /\ Len(vector.row) = Len(feature_names)
         /\ \A i \in 1..Len(feature_names) :
                vector.row[i] = SlotOf(feature_names[i])
         /\ \A r \in Reorderings :
                preprocess_data(r, feature_names).row = vector.row

\* a row built from a record that has a key outside the schema before a
\* feature and lacks another feature
C13_Witness ==
    /\ Built
    /\ Len(record) = 2 /\ record[1][1] = "d" /\ record[2] = <<"c", "5">>
    /\ vector.row = <<"0.0", "0.0", "5.0">>

----------------------------------------------------------------------------
\* preprocess_data has been called and has returned or raised
Vectorized == vector.kind # NoValue

\* the keys of the record
KeysOf(items) == { items[i][1] : i \in 1..Len(items) }

\* the features of the schema
Features == { feature_names[i] : i \in 1..Len(feature_names) }

\* the value cannot be coerced: float(value) raises
Uncoercible(value) == value # Missing /\ FloatError(value) # "none"

\* the number of warnings of one kind printed for a key
WarningCount(kind, key) ==
    Cardinality({ i \in 1..Len(warnings) :
                    warnings[i] = [kind |-> kind, key |-> key] })

(* C14: preprocess_data never raises on a bad value; a feature whose
   value cannot be coerced has slot 0.0 and exactly one coercion warning,
   a feature the record lacks has slot 0.0, a key outside the schema has
   exactly one ignored-key warning, and nothing else is warned about. *)
C14_AbsorbsBadInput ==
    Vectorized =>
        /\ Built
        /\ \A i \in 1..Len(feature_names) :
               LET key == feature_names[i]
               IN  /\ ValueOf(key) = Missing => vector.row[i] = "0.0"
                   /\ Uncoercible(ValueOf(key)) =>
                          /\ vector.row[i] = "0.0"
                          /\ WarningCount("coercion", key) = 1
        /\ \A key \in KeysOf(record) \ Features :
               WarningCount("ignored", key) = 1
        /\ Len(warnings) =
               Cardinality({ key \in KeysOf(record) :
                               key \in Features => Uncoercible(ValueOf(key)) })

----------------------------------------------------------------------------
\* score_batch has been called and has returned or raised
BatchScored == batchResult.kind # NoValue

(* C15: score_batch called while _model or _scaler is unset raises its
   not-loaded error and returns no frame; a detector whose load failed is
   never constructed and returns no result, and every result detect_anomaly
   builds is scored by a loaded model on the row a loaded scaler
   transformed, never on the raw values. *)
C15_NoScoringBeforeLoad ==
    /\ BatchScored /\ (_model = 0 \/ _scaler = 0) => batchResult = NotReady
    /\ batchResult.kind = "frame" => _model # 0 /\ _scaler # 0
    /\ construction = "failed" =>
          /\ loadError # "none"
          /\ \A t \in Threads : result[t].kind = NoValue
    /\ \A t \in Threads :
          HasResult(t) => model # 0 /\ scaler # 0 /\ result[t].scaled

\* score_batch has raised with the model loaded and the scaler not, and the
\* construction of a detector has failed on a model without its scaler
C15_Witness ==
    /\ batchResult = NotReady /\ _model = 1 /\ _scaler = 0
    /\ construction = "failed" /\ model # 0 /\ scaler = 0

----------------------------------------------------------------------------
(* C16: score_batch returns exactly one result per row of the batch, in
   the order of the rows, and a row that cannot be scored does not abort
   the batch: its result carries an error status and every other row is
   scored. *)
C16_RowErrorsIsolated ==
    BatchScored /\ batchResult # NotReady =>
        /\ batchResult.kind = "frame"
        /\ Len(batchResult.rows) = Len(batch)
        /\ \A i \in 1..Len(batch) :
               /\ batchResult.rows[i].index = i
               /\ IF batch[i] = "inf"
                  THEN batchResult.rows[i].anomaly = "error"
                  ELSE batchResult.rows[i].anomaly = AnomalyFlag(batch[i])

\* a batch of rows that can all be scored gets one result per row, in order
C16_ScorableBatchInOrder ==
    /\ batchResult.kind = "frame" /\ batch = <<"odd", "normal">>
    /\ batchResult.rows = << [index |-> 1, anomaly |-> 1],
                             [index |-> 2, anomaly |-> 0] >>

----------------------------------------------------------------------------
\* the timestamps whose model file and scaler file are both in the directory
Pairs(dir) == { ts \in model_files(dir) : dir.scaler[ts] }

\* the constructor has run
Constructed == construction # "unbuilt"

(* C17: in every model directory that holds at least one model with the
   scaler of its timestamp, the load succeeds with the most recently
   modified such pair; the model and the scaler loaded always have one
   timestamp, and the load fails only in a directory that holds no such
   pair, with the no-model-files error when it holds no model. *)
C17_NewestPairLoaded ==
    Constructed =>
        /\ Pairs(modelDir) # {} =>
              /\ construction = "ready"
              /\ model \in Pairs(modelDir)
              /\ \A ts \in Pairs(modelDir) :
                     modelDir.model[ts] <= modelDir.model[model]
        /\ construction = "ready" => model = scaler /\ model # 0
        /\ construction = "failed" => Pairs(modelDir) = {}
        /\ model_files(modelDir) = {} =>
              construction = "failed" /\ loadError = "no model files"

\* the newest model is loaded with its scaler while an older pair exists
C17_NewestOfTwoPairs ==
    /\ construction = "ready" /\ model = 2 /\ scaler = 2
    /\ modelDir.model[1] = 1 /\ modelDir.scaler[1]
    /\ modelDir.model[2] = 2

----------------------------------------------------------------------------
\* detect_anomaly has returned to its thread
DetectReturned(t) == pc[t] = "done" /\ result[t].kind # NoValue

(* C18: detect_anomaly enters send_alert exactly when its result is an
   anomaly; a call whose result is not one returns with alert_history and
   alert_cooldowns as they were when it started, and the only classes that
   ever hold limiter state or an emission are 'medium' and 'high'. *)
C18_DispatchOnlyAnomalies ==
    /\ \A t \in Threads :
          /\ HasResult(t) => (Checked(t) <=> result[t].is_anomaly)
          /\ result[t] = Raised => ~Checked(t)
          /\ DetectReturned(t) /\ ~Checked(t) =>
                /\ alert_history = before[t].h
                /\ alert_cooldowns = before[t].cd
    /\ ClassesHeld \subseteq {"medium", "high"}
    /\ \A a \in Labels \ {"medium", "high"} : emissions[a] = << >>

\* a 'low' result has been returned by an agent that holds the emission of
\* an earlier anomaly
C18_Witness ==
    /\ DetectReturned("t1") /\ HasResult("t1")
    /\ result["t1"].severity = "low" /\ ~Checked("t1")
    /\ alert_history # << >> /\ alert_history = before["t1"].h
    /\ DOMAIN alert_cooldowns # {}

----------------------------------------------------------------------------
(* C19: with the collaborator absent or failing, every two calls of
   generate_alert_message on the same anomaly data return the same message,
   whether or not the data carries a timestamp. *)
C19_FallbackDeterministic ==
    \A i, j \in 1..Len(texts) : texts[i] = texts[j]

\* two calls on data that carries its timestamp return one and the same
\* message, the feature dump cut to 500 characters
C19_SameWithTimestamp ==
    /\ Len(texts) = 2 /\ texts[1] = texts[2] /\ texts[1] # Raised
    /\ anomaly.timestamp # Missing /\ anomaly.features = "<40 flows>"
    /\ clock > 0

----------------------------------------------------------------------------
(* C20: with calls run one after another, the list of emission times
   that alert_history holds for a class never has more than rate_limit
   entries. *)
C20_ListWithinRateLimit ==
    /\ rate_limit >= 0
    /\ \A i \in 1..Len(alert_history) :
          Len(alert_history[i].v) <= rate_limit

\* the list of a class is full, its entries older than the window, while
\* the call at hand is of another class
C20_Witness ==
    /\ rate_limit = 2
    /\ Len(Get(alert_history, "high")) = rate_limit
    /\ Checked("t1") /\ ClassOf("t1") # "high"
    /\ \A i \in 1..rate_limit :
          nowCheck["t1"] - Get(alert_history, "high")[i] >= WINDOW

----------------------------------------------------------------------------
(* C21: in every state the list of every class holds only emission times
   that lie in the trailing 60 s window of the current time. *)
C21_AllListsInWindow ==
    \A i \in 1..Len(alert_history) :
        \A j \in 1..Len(alert_history[i].v) :
            clock - alert_history[i].v[j] <= WINDOW

\* what the check does establish: when _is_rate_limited has decided for a
\* class and nothing has been recorded since, the list of that class holds
\* only emission times less than 60 s before the now of the check
C21_CheckedListInWindow ==
    \A t \in Threads :
        OnlyChecked(t) =>
            \A j \in 1..Len(Get(alert_history, ClassOf(t))) :
                nowCheck[t] - Get(alert_history, ClassOf(t))[j] < WINDOW

\* the check has pruned the list of its class while the list of another
\* class keeps an entry older than the window
C21_StaleOtherClass ==
    /\ OnlyChecked("t1")
    /\ Len(Get(alert_history, ClassOf("t1")))
         < Len(Get(before["t1"].h, ClassOf("t1")))
    /\ \E i \in 1..Len(alert_history) :
         /\ alert_history[i].k # ClassOf("t1")
         /\ \E j \in 1..Len(alert_history[i].v) :
               nowCheck["t1"] - alert_history[i].v[j] >= WINDOW

----------------------------------------------------------------------------
\* emissions of a list that are window seconds old or younger at time now
WindowCountInclusive(list, now) ==
    Cardinality({ i \in 1..Len(list) : now - list[i] <= WINDOW })

(* C22: the check counts every earlier emission of the class that is 60 s
   old or younger, one exactly 60 s old included, and takes the rate-limit
   denial exactly when that count is at least rate_limit and the class is
   not in cooldown. *)
C22_BoundaryCounted ==
    \A t \in Threads :
        OnlyChecked(t) =>
            LET n == WindowCountInclusive(emissions[ClassOf(t)], nowCheck[t])
            IN  (branch[t] = "rate_limit") <=>
                   (n >= rate_limit /\ branch[t] # "cooldown")

\* the same with the emissions less than 60 s old, as line 69 counts them
C22_StrictWindowCounted ==
    \A t \in Threads :
        OnlyChecked(t) =>
            LET n == WindowCount(emissions[ClassOf(t)], nowCheck[t])
            IN  (branch[t] = "rate_limit") <=>
                   (n >= rate_limit /\ branch[t] # "cooldown")

----------------------------------------------------------------------------
\* send_alert has returned the success record to t
Succeeded(t) == pc[t] = "done" /\ status[t] = "success"

(* C23: the success record of send_alert names the class of the anomaly
   that was dispatched: its alert_type is anomaly_data's severity, the
   class whose history and cooldown the call updated, also when the agent
   holds history of other classes. *)
C23_SuccessNamesClass ==
    \A t \in Threads :
        Succeeded(t) =>
            /\ retType[t] = ClassOf(t)
            /\ alert_type[t] = ClassOf(t)

\* the class the call updated is the one of its anomaly_data
C23_UpdatedClassIsDispatched ==
    \A t \in Threads :
        Succeeded(t) =>
            /\ ClassOf(t) \in DOMAIN alert_cooldowns
            /\ alert_cooldowns[ClassOf(t)] = nowRec[t]
            /\ emissions[ClassOf(t)] # << >>
            /\ emissions[ClassOf(t)][Len(emissions[ClassOf(t)])] = nowRec[t]


\* C24: two runs of the same agent that make the same calls for one class
\* at the same times, and differ only in their calls for other classes,
\* take the same branch at every admission check of that class
C24_ClassesIndependent == decided[1] = decided[2]

\* the two runs had come apart before a check of the compared class, which
\* both runs denied or both admitted
C24_Witness ==
    /\ decided[3] = TRUE
    /\ decided[1] \in {"cooldown", "rate_limit"}
    /\ HasKey(alert_history, "unknown") # HasKey(twin_history, "unknown")

\* the call of t met an agent that had checked and recorded nothing
FreshAgent(t) == before[t].h = << >> /\ before[t].cd = << >>

\* C25: the first admission check of a fresh AlertAgent with rate_limit >= 1
\* is admitted, whatever now and cooldown are
C25_FreshClassAdmitted ==
    \A t \in Threads :
        (Checked(t) /\ FreshAgent(t) /\ rate_limit >= 1) =>
            branch[t] = "pass"

\* what the code does: the first check is admitted exactly when now has
\* reached cooldown, the last emission of line 73 defaulting to time 0
C25_FreshClassAdmittedFromCooldown ==
    \A t \in Threads :
        (Checked(t) /\ FreshAgent(t) /\ rate_limit >= 1) =>
            (branch[t] = "pass" <=> nowCheck[t] >= cooldown)

\* two successive recorded emissions of every class are cooldown apart
Spaced ==
    \A a \in Labels :
        \A i \in 1..(Len(emissions[a]) - 1) :
            emissions[a][i + 1] - emissions[a][i] >= cooldown

\* C26: with calls run one after another, successive emissions of a class
\* are at least cooldown apart; with cooldown >= 60 and rate_limit >= 2 no
\* class has more than one emission in the window and no check is denied
\* by the rate limit
C26_CooldownSpacesEmissions ==
    /\ Spaced
    /\ (cooldown >= WINDOW /\ rate_limit >= 2) =>
          /\ \A a \in Keys(alert_history) :
                WindowCount(Get(alert_history, a), clock) <= 1
          /\ \A t \in Threads : branch[t] # "rate_limit"

\* a class emitted twice, exactly cooldown = 60 apart, and its next check,
\* 60 later again, was let through by both tests
C26_Witness ==
    /\ cooldown = WINDOW /\ rate_limit = 2
    /\ \E a \in Labels :
         /\ Len(emissions[a]) >= 2
         /\ emissions[a][2] - emissions[a][1] = cooldown
         /\ Admitted("t1") /\ ClassOf("t1") = a
         /\ nowCheck["t1"] - emissions[a][2] = cooldown

\* with a cooldown shorter than the window the rate-limit branch is taken
C26_ShortCooldownRateLimited ==
    cooldown < WINDOW /\ branch["t1"] = "rate_limit"

\* the statuses of the records send_alert returns
Statuses == {"success", "rate_limited", "error"}

\* send_alert has finished for t, by a return or by an exception
Finished(t) == pc[t] = "done" /\ Checked(t)

\* C27: send_alert raises nothing and returns one record whose status is
\* success, rate_limited or error, whatever fails inside it, and the result
\* detect_anomaly built for the anomalous record is still its result
C27_SendAlertTotal ==
    \A t \in Threads :
        Finished(t) =>
            /\ status[t] \in Statuses
            /\ result[t].kind # NoValue => HasResult(t)

\* what the code does: a send_alert call ends without a record only in a
\* step that found stdout closed, the print of line 203 raising; an
\* encoding error of a print is returned as status error
C27_RaisesOnlyOnClosedStdout ==
    [][\A t \in Threads :
         (status'[t] = "raised" /\ status[t] # "raised") => stdout = "closed"]_vars

\* the result of a detect_anomaly call that entered send_alert is lost
\* exactly when send_alert raised
C27_ResultLostIffRaised ==
    \A t \in Threads :
        (Finished(t) /\ result[t].kind # NoValue) =>
            (HasResult(t) <=> status[t] \in Statuses)

\* a detect_anomaly call whose alert ended with the error record has
\* returned its result
C27_FailedAlertKeepsResult ==
    /\ Finished("t1") /\ status["t1"] = "error"
    /\ HasResult("t1") /\ result["t1"].is_anomaly

====
